---- MODULE Spec2Model ----
(***************************************************************************)
(* Model of csp.go: the Go functions that the file gives for Hoare's CSP   *)
(* input/output, alternative and repetitive commands.                      *)
(*                                                                         *)
(* The model is of the Go statements.  A select takes, at random, one of   *)
(* its cases whose channel operation can proceed: a receive can proceed    *)
(* when a writer is blocked on the channel or the channel is closed (the   *)
(* receive then yields nil).  With no such case the select takes its       *)
(* default case if it has one and blocks otherwise; select {} blocks for   *)
(* ever.  The "when" conditions of the cases are comments: no statement    *)
(* tests them.  They appear below only in the properties, as what the      *)
(* comments say of each case.                                              *)
(***************************************************************************)
EXTENDS Integers, Sequences, FiniteSets, TLC

\* Bounds of the model.
MaxWrites == 2      \* values each environment writer offers on its channel
MaxXY == 1          \* x and y start in 0..MaxXY
MaxEvals == 4       \* selects a task enters
MaxInputs == 2      \* inputs each console offers

\* The two tasks that run a function each.
Tasks == {1, 2}

\* Channels read by the cases, and channels written by the case bodies.
InChans == {"west", "north"}
OutChans == {"east", "south"}

\* The n-th value written on a channel; values are distinct across channels.
Val(ch, n) == IF ch = "west" THEN n ELSE 10 + n

\* nil: the zero value of c, which a receive on a closed channel yields.
NoVal == 0

VARIABLES
    prog,       \* prog[t]: the function task t runs ("none": the task is absent)
    x, y, m,    \* the package-level integer variables
    closed,     \* closed[ch]: the channel has been closed
    ar,         \* the channel alwaysReady: nil (as declared), open (no
                \* writer), offered (a writer is blocked on it), closed
    cpc,        \* state of the task that closes channels: ok, panicked
    wpc,        \* wpc[ch]: state of the writer of ch: idle, blocked, panicked
    wn,         \* wn[ch]: number of writes on ch that completed
    pc,         \* pc[t]: start (at its select), blocked (in the select),
                \* send (in east <- c), done, and the statements of
                \* assignmentExamples: incr, swap, cast, panicked
    outcome,    \* outcome[t]: the case t's latest select took, the value it
                \* received, the cases that were ready, whether t was
                \* blocked in the select (history)
    evals,      \* evals[t]: selects entered by t
    sels,       \* sels[t]: selects of t that took a channel case
    exhs,       \* exhs[t]: selects of t that took the default case
    acts,       \* acts[t]: case bodies t started
    recv,       \* recv[ch]: values received from writers of ch
    rcount,     \* rcount[v]: how many times value v has been received
    sunk,       \* sunk[d]: the values read from output channel d, in order
    cprog,      \* the console loop that runs: arrayExampleOne,
                \* fictionalForSelectInGo ("none": no console loop)
    i_,         \* the package-level variable i
    console,    \* the package-level slice console: nil (as declared), or
                \* made (three channels, made by the caller)
    continue_,  \* continue_[k]: the local slice of the console loop
    lpc,        \* position of the console loop: select, sendX, ack, assign,
                \* done, panicked
    cidx,       \* the console whose channel the select received from
    cval,       \* the c received
    cons,       \* cons[k]: console k: idle, offering (blocked in its write),
                \* awaitAck (reading its channel), panicked; the value it
                \* offers; the number of its inputs taken
    accepted,   \* the inputs taken by the loop, as <<console, c>> (history)
    xlog,       \* the values sent on X, in order
    acks        \* the consoles that received an ack, in order

\* The variables of the channel functions.
mvars == <<prog, x, y, m, closed, ar, cpc, wpc, wn, pc, outcome, evals, sels,
           exhs, acts, recv, rcount, sunk>>

\* The variables of the console loop.
cvars == <<cprog, i_, console, continue_, lpc, cidx, cval, cons, accepted,
           xlog, acks>>

vars == <<mvars, cvars>>

AllVals == {Val(ch, n) : ch \in InChans, n \in 1..MaxWrites}

\* ---------------------------------------------------------------------
\* The selects of the source, as case lists.  A case is
\* [in |-> the channel it receives from, act |-> its body].

Case(i, a) == [in |-> i, act |-> a]

\* select { case c := <-west: east <- c; case c2 := <-north: south <- c2 }
simpleAlternative ==
    << Case("west", "east"), Case("north", "south") >>

\* The same select; its cases carry the comments "when x > y", "when y > x".
alternativeWithBooleanCriteria ==
    << Case("west", "east"), Case("north", "south") >>

\* select { case c := <-west: east <- c }
alternativeWithBooleanCriteriaXGreaterThanY ==
    << Case("west", "east") >>

\* select {}
alternativeXGreaterThanY == << >>

\* for { select { case c := <-west ...; case c2 := <-north ...;
\*                default: break LOOP } }
repetition ==
    << Case("west", "east"), Case("north", "south") >>

\* for { select { case c := <-west: east <- c } }
repetitionXGreaterThanY ==
    << Case("west", "east") >>

\* for { select { default: break LOOP } }
alternativeWithXEqualY == << >>

\* for { select { default: break LOOP } }
alternativeWithWestClosed == << >>

\* select { case <-alwaysReady: m = x; case <-alwaysReady: m = y }
nonInputGuards ==
    << Case("alwaysReady", "mx"), Case("alwaysReady", "my") >>

\* The functions with a select.
Selects == {"simpleAlternative", "alternativeWithBooleanCriteria",
            "alternativeWithBooleanCriteriaXGreaterThanY",
            "alternativeXGreaterThanY", "repetition", "repetitionXGreaterThanY",
            "alternativeWithXEqualY", "alternativeWithWestClosed",
            "nonInputGuards"}

Programs == Selects \cup {"assignmentExamples"}

Cases(p) ==
    CASE p = "simpleAlternative" -> simpleAlternative
      [] p = "alternativeWithBooleanCriteria" -> alternativeWithBooleanCriteria
      [] p = "alternativeWithBooleanCriteriaXGreaterThanY" ->
             alternativeWithBooleanCriteriaXGreaterThanY
      [] p = "alternativeXGreaterThanY" -> alternativeXGreaterThanY
      [] p = "repetition" -> repetition
      [] p = "repetitionXGreaterThanY" -> repetitionXGreaterThanY
      [] p = "alternativeWithXEqualY" -> alternativeWithXEqualY
      [] p = "alternativeWithWestClosed" -> alternativeWithWestClosed
      [] p = "nonInputGuards" -> nonInputGuards
      [] OTHER -> << >>

\* The selects with "default: break LOOP".
HasDefault(p) ==
    p \in {"repetition", "alternativeWithXEqualY", "alternativeWithWestClosed"}

\* The selects inside for { ... }.
Rep(p) ==
    p \in {"repetition", "repetitionXGreaterThanY", "alternativeWithXEqualY",
           "alternativeWithWestClosed"}

CaseIdx(t) == 1..Len(Cases(prog[t]))
G(t, i) == Cases(prog[t])[i]

\* A receive on ch can proceed: a writer is blocked on it, or it is closed.
\* (A write on a closed channel panics, so no writer is blocked on one.)
CanReceive(ch) ==
    IF ch = "alwaysReady"
    THEN ar \in {"offered", "closed"}
    ELSE closed[ch] \/ wpc[ch] = "blocked"

\* The cases of t's select that can proceed.
ReadyOf(t) == {i \in CaseIdx(t) : CanReceive(G(t, i).in)}

\* Variant: the first ready case in source order is taken.
ChoiceFirst(R) == {i \in R : \A j \in R : i <= j}

\* "if both west and north are ready, one of the cases is chosen at random".
Choice(R) == R

TypeOK ==
    /\ prog \in [Tasks -> Programs \cup {"none"}]
    /\ x \in 0..(MaxXY + 1) /\ y \in 0..(MaxXY + 1) /\ m \in 0..MaxXY
    /\ closed \in [InChans -> BOOLEAN]
    /\ ar \in {"nil", "open", "offered", "closed"}
    /\ cpc \in {"ok", "panicked"}
    /\ wpc \in [InChans -> {"idle", "blocked", "panicked"}]
    /\ wn \in [InChans -> 0..MaxWrites]
    /\ pc \in [Tasks -> {"start", "blocked", "send", "done",
                         "incr", "swap", "cast", "panicked"}]
    /\ evals \in [Tasks -> 0..MaxEvals]

NoOutcome ==
    [kind |-> "none", idx |-> 0, val |-> NoVal, ready |-> {}, woken |-> FALSE]

\* No console loop runs.
NoConsoles ==
    /\ cprog = "none"
    /\ i_ = 0
    /\ console = "nil"
    /\ continue_ = [k \in 0..2 |-> FALSE]
    /\ lpc = "done"
    /\ cidx = 0
    /\ cval = ""
    /\ cons = [k \in 0..2 |-> [st |-> "idle", val |-> "", n |-> 0]]
    /\ accepted = << >>
    /\ xlog = << >>
    /\ acks = << >>

\* The state after the declarations, for each function started; the
\* channels are taken as made, with no writer yet.  A second task runs
\* beside simpleAlternative only.  The state of alwaysReady matters to
\* nonInputGuards only.
Init ==
    /\ prog \in [Tasks -> Programs \cup {"none"}]
    /\ prog[1] # "none"
    /\ prog[2] \in {"none", "simpleAlternative", "repetition"}
    /\ prog[2] # "none" => prog[1] = "simpleAlternative"
    /\ x \in 0..MaxXY
    /\ y \in 0..MaxXY
    /\ m = 0
    /\ closed = [ch \in InChans |-> FALSE]
    /\ ar \in (IF prog[1] = "nonInputGuards"
               THEN {"nil", "offered", "closed"} ELSE {"nil"})
    /\ cpc = "ok"
    /\ wpc = [ch \in InChans |-> "idle"]
    /\ wn = [ch \in InChans |-> 0]
    /\ pc = [t \in Tasks |->
               CASE prog[t] = "none" -> "done"
                 [] prog[t] = "assignmentExamples" -> "incr"
                 [] OTHER -> "start"]
    /\ outcome = [t \in Tasks |-> NoOutcome]
    /\ evals = [t \in Tasks |-> 0]
    /\ sels = [t \in Tasks |-> 0]
    /\ exhs = [t \in Tasks |-> 0]
    /\ acts = [t \in Tasks |-> 0]
    /\ recv = [ch \in InChans |-> 0]
    /\ rcount = [v \in AllVals |-> 0]
    /\ sunk = [d \in OutChans |-> << >>]
    /\ NoConsoles

\* ---------------------------------------------------------------------
\* Channel operations.

\* Variant: the value stays offered after it has been received.
HandoffKeepsOffer(ch) ==
    /\ wpc' = [wpc EXCEPT ![ch] = "blocked"]
    /\ wn' = wn
    /\ recv' = [recv EXCEPT ![ch] = @ + 1]
    /\ rcount' = [rcount EXCEPT ![Val(ch, wn[ch] + 1)] = @ + 1]

\* The receive of the value the writer of ch is blocked with: the write
\* completes (simpleWrite returns) and the value has been received once.
Handoff(ch) ==
    /\ wpc' = [wpc EXCEPT ![ch] = "idle"]
    /\ wn' = [wn EXCEPT ![ch] = @ + 1]
    /\ recv' = [recv EXCEPT ![ch] = @ + 1]
    /\ rcount' = [rcount EXCEPT ![Val(ch, wn[ch] + 1)] = @ + 1]

\* What a receive on ch that can proceed yields: the value of the blocked
\* writer, nil on a closed channel.  The cases on alwaysReady drop the value.
Received(ch) ==
    IF ch = "alwaysReady" \/ closed[ch] THEN NoVal ELSE Val(ch, wn[ch] + 1)

\* Variant: the select receives from every channel with a blocked writer.
TakeInputAll(ch) ==
    /\ wpc' = [c \in InChans |-> IF wpc[c] = "blocked" THEN "idle" ELSE wpc[c]]
    /\ wn' = [c \in InChans |-> IF wpc[c] = "blocked" THEN wn[c] + 1 ELSE wn[c]]
    /\ recv' = [c \in InChans |->
                   IF wpc[c] = "blocked" THEN recv[c] + 1 ELSE recv[c]]
    /\ rcount' = [v \in AllVals |->
                     IF \E c \in InChans :
                            wpc[c] = "blocked" /\ v = Val(c, wn[c] + 1)
                     THEN rcount[v] + 1 ELSE rcount[v]]
    /\ UNCHANGED ar

\* The receive of a case that can proceed.
TakeInput(ch) ==
    IF ch = "alwaysReady"
    THEN /\ ar' = (IF ar = "offered" THEN "open" ELSE ar)
         /\ UNCHANGED <<wpc, wn, recv, rcount>>
    ELSE IF closed[ch]
         THEN UNCHANGED <<ar, wpc, wn, recv, rcount>>
         ELSE Handoff(ch) /\ UNCHANGED ar

\* Where the task goes after a case body: back to the select inside a for,
\* to the end of the function otherwise.
AfterPc(t) == IF Rep(prog[t]) THEN "start" ELSE "done"

\* Case i of t's select is taken with c = v: the body starts.  east <- c and
\* south <- c2 block until the channel is read (Sink); m = x and m = y are
\* done at once.
Selected(t, i, v, R, w) ==
    /\ outcome' = [outcome EXCEPT ![t] =
           [kind |-> "Selected", idx |-> i, val |-> v, ready |-> R, woken |-> w]]
    /\ sels' = [sels EXCEPT ![t] = @ + 1]
    /\ acts' = [acts EXCEPT ![t] = @ + 1]
    /\ m' = CASE G(t, i).act = "mx" -> x
              [] G(t, i).act = "my" -> y
              [] OTHER -> m
    /\ pc' = [pc EXCEPT ![t] =
                 IF G(t, i).act \in OutChans THEN "send" ELSE AfterPc(t)]

\* default: break LOOP.  The for is left and the function returns.
TakeDefault(t) ==
    /\ outcome' = [outcome EXCEPT ![t] = [NoOutcome EXCEPT !.kind = "Default"]]
    /\ exhs' = [exhs EXCEPT ![t] = @ + 1]
    /\ pc' = [pc EXCEPT ![t] = "done"]
    /\ UNCHANGED <<m, sels, acts, ar, wpc, wn, recv, rcount>>

\* No case can proceed and there is no default: the task blocks in the select.
Park(t) ==
    /\ outcome' = [outcome EXCEPT ![t] = [NoOutcome EXCEPT !.kind = "Blocked"]]
    /\ pc' = [pc EXCEPT ![t] = "blocked"]
    /\ UNCHANGED <<m, sels, exhs, acts, ar, wpc, wn, recv, rcount>>

\* A case that can proceed is taken.
TakeReady(t, i, R, w) ==
    /\ Selected(t, i, Received(G(t, i).in), R, w)
    /\ TakeInput(G(t, i).in)
    /\ UNCHANGED exhs

\* Task t enters its select.  A case that can proceed is taken, any of
\* them; with none the default case is taken if the select has one, and the
\* task blocks otherwise.  select {} has no case: it blocks for ever.
Select(t) ==
    /\ pc[t] = "start"
    /\ prog[t] \in Selects
    /\ evals[t] < MaxEvals
    /\ evals' = [evals EXCEPT ![t] = @ + 1]
    /\ LET R == ReadyOf(t) IN
         IF R # {}
         THEN \E i \in Choice(R) : TakeReady(t, i, R, FALSE)
         ELSE IF HasDefault(prog[t])
              THEN TakeDefault(t)
              ELSE Park(t)
    /\ UNCHANGED <<prog, x, y, closed, cpc, sunk>>
    /\ UNCHANGED cvars

\* The tasks blocked in a select with a case that receives from ch.
Waiting(ch) ==
    {t \in Tasks : pc[t] = "blocked" /\ \E i \in CaseIdx(t) : G(t, i).in = ch}

\* Variant: the write completes with no reader.
WriterBuffers(ch) ==
    /\ wn' = [wn EXCEPT ![ch] = @ + 1]
    /\ UNCHANGED <<m, pc, outcome, sels, acts, wpc, recv, rcount>>

\* The writer finds no reader: it blocks with its value.
WriterBlocks(ch) ==
    /\ wpc' = [wpc EXCEPT ![ch] = "blocked"]
    /\ UNCHANGED <<m, pc, outcome, sels, acts, wn, recv, rcount>>

\* Variant: a write on a closed channel blocks.
SendOnClosedBlocks(ch) ==
    /\ wpc' = [wpc EXCEPT ![ch] = "blocked"]
    /\ UNCHANGED <<m, pc, outcome, sels, acts, wn, recv, rcount>>

\* A write on a closed channel panics.
SendOnClosed(ch) ==
    /\ wpc' = [wpc EXCEPT ![ch] = "panicked"]
    /\ UNCHANGED <<m, pc, outcome, sels, acts, wn, recv, rcount>>

\* simpleWrite: west <- c.  On a closed channel it panics.  If a task is
\* blocked in a select with a case on ch, that case receives the value and
\* the write is done; otherwise the writer blocks until a read.
Write(ch) ==
    /\ wpc[ch] = "idle"
    /\ wn[ch] < MaxWrites
    /\ IF closed[ch]
       THEN SendOnClosed(ch)
       ELSE IF Waiting(ch) # {}
            THEN \E t \in Waiting(ch) :
                 \E i \in Choice({j \in CaseIdx(t) : G(t, j).in = ch}) :
                    /\ Selected(t, i, Val(ch, wn[ch] + 1),
                                {j \in CaseIdx(t) : G(t, j).in = ch}, TRUE)
                    /\ wn' = [wn EXCEPT ![ch] = @ + 1]
                    /\ recv' = [recv EXCEPT ![ch] = @ + 1]
                    /\ rcount' = [rcount EXCEPT ![Val(ch, wn[ch] + 1)] = @ + 1]
                    /\ UNCHANGED wpc
            ELSE WriterBlocks(ch)
    /\ UNCHANGED <<prog, x, y, closed, ar, cpc, evals, exhs, sunk>>
    /\ UNCHANGED cvars

\* close(ch).  Closing a closed channel panics; a writer blocked on the
\* channel panics.  Receives on the channel can proceed from now on.
Close(ch) ==
    /\ cpc = "ok"
    /\ IF closed[ch]
       THEN /\ cpc' = "panicked"
            /\ UNCHANGED <<closed, wpc>>
       ELSE /\ closed' = [closed EXCEPT ![ch] = TRUE]
            /\ wpc' = [wpc EXCEPT ![ch] = IF @ = "blocked" THEN "panicked" ELSE @]
            /\ UNCHANGED cpc
    /\ UNCHANGED <<prog, x, y, m, ar, wn, pc, outcome, evals, sels, exhs,
                   acts, recv, rcount, sunk>>
    /\ UNCHANGED cvars

\* A task blocked in its select goes on once one of its cases can proceed:
\* a channel of the select has been closed, and the case receives nil.
Wake(t) ==
    /\ pc[t] = "blocked"
    /\ ReadyOf(t) # {}
    /\ \E i \in Choice(ReadyOf(t)) : TakeReady(t, i, ReadyOf(t), TRUE)
    /\ UNCHANGED <<prog, x, y, closed, cpc, evals, sunk>>
    /\ UNCHANGED cvars

\* east <- c (south <- c2) completes: the channel is read and the body ends.
Sink(t) ==
    /\ pc[t] = "send"
    /\ LET d == G(t, outcome[t].idx).act IN
         sunk' = [sunk EXCEPT ![d] = Append(@, outcome[t].val)]
    /\ pc' = [pc EXCEPT ![t] = AfterPc(t)]
    /\ UNCHANGED <<prog, x, y, m, closed, ar, cpc, wpc, wn, outcome, evals,
                   sels, exhs, acts, recv, rcount>>
    /\ UNCHANGED cvars

\* assignmentExamples: x = x + 1
AssignIncr(t) ==
    /\ pc[t] = "incr"
    /\ x' = x + 1
    /\ pc' = [pc EXCEPT ![t] = "swap"]
    /\ UNCHANGED <<prog, y, m, closed, ar, cpc, wpc, wn, outcome, evals, sels,
                   exhs, acts, recv, rcount, sunk>>
    /\ UNCHANGED cvars

\* assignmentExamples: x, y = y, x
AssignSwap(t) ==
    /\ pc[t] = "swap"
    /\ x' = y
    /\ y' = x
    /\ pc' = [pc EXCEPT ![t] = "cast"]
    /\ UNCHANGED <<prog, m, closed, ar, cpc, wpc, wn, outcome, evals, sels,
                   exhs, acts, recv, rcount, sunk>>
    /\ UNCHANGED cvars

\* assignmentExamples: the assignments to the locals local, left, right,
\* lhs and rhs change no package-level variable; lhs = rhs.(insert) panics.
AssignCast(t) ==
    /\ pc[t] = "cast"
    /\ pc' = [pc EXCEPT ![t] = "panicked"]
    /\ UNCHANGED <<prog, x, y, m, closed, ar, cpc, wpc, wn, outcome, evals,
                   sels, exhs, acts, recv, rcount, sunk>>
    /\ UNCHANGED cvars

Next ==
    \/ \E t \in Tasks : Select(t)
    \/ \E t \in Tasks : Wake(t)
    \/ \E t \in Tasks : Sink(t)
    \/ \E t \in Tasks : AssignIncr(t)
    \/ \E t \in Tasks : AssignSwap(t)
    \/ \E t \in Tasks : AssignCast(t)
    \/ \E ch \in InChans : Write(ch)
    \/ \E ch \in InChans : Close(ch)

Spec == Init /\ [][Next]_vars

\* ---------------------------------------------------------------------
\* The console loops: arrayExampleOne and fictionalForSelectInGo.

SIGN_OFF == "q"

\* The consoles (the indices of console and continue_) and what they type.
Consoles == 0..2
Inputs == {"a", SIGN_OFF}

ConsoleProgs == {"arrayExampleOne", "fictionalForSelectInGo"}

\* The i of the case bodies (X <- xinput{i, c}; console[i] <- ack{};
\* continue_[i] = ...) and of "case c := <-console[i]": the package-level i.
BodyIndex == i_

\* No channel function runs.
Quiet ==
    /\ prog = [t \in Tasks |-> "none"]
    /\ x = 0 /\ y = 0 /\ m = 0
    /\ closed = [ch \in InChans |-> FALSE]
    /\ ar = "nil"
    /\ cpc = "ok"
    /\ wpc = [ch \in InChans |-> "idle"]
    /\ wn = [ch \in InChans |-> 0]
    /\ pc = [t \in Tasks |-> "done"]
    /\ outcome = [t \in Tasks |-> NoOutcome]
    /\ evals = [t \in Tasks |-> 0]
    /\ sels = [t \in Tasks |-> 0]
    /\ exhs = [t \in Tasks |-> 0]
    /\ acts = [t \in Tasks |-> 0]
    /\ recv = [ch \in InChans |-> 0]
    /\ rcount = [v \in AllVals |-> 0]
    /\ sunk = [d \in OutChans |-> << >>]

\* continue_ := make([]bool, 3): every element is false.  i is declared
\* without a value and nothing assigns it: it is 0.  console is declared
\* without a value, a nil slice, and nothing in the source makes it; the
\* functions are also started with a console of three channels, as a
\* caller would have to provide.
ConsoleInit ==
    /\ Quiet
    /\ cprog \in ConsoleProgs
    /\ i_ = 0
    /\ console \in {"nil", "made"}
    /\ continue_ = [k \in Consoles |-> FALSE]
    /\ lpc = "select"
    /\ cidx = 0
    /\ cval = ""
    /\ cons = [k \in Consoles |-> [st |-> "idle", val |-> "", n |-> 0]]
    /\ accepted = << >>
    /\ xlog = << >>
    /\ acks = << >>

\* Console k writes v on console[k]; the write blocks until the loop reads.
\* On the nil slice console[k] is out of range: the console panics.
ConsoleWrite(k, v) ==
    /\ cons[k].st = "idle"
    /\ cons[k].n < MaxInputs
    /\ IF console = "nil"
       THEN cons' = [cons EXCEPT ![k] = [@ EXCEPT !.st = "panicked"]]
       ELSE cons' = [cons EXCEPT ![k] = [st |-> "offering", val |-> v, n |-> @.n]]
    /\ UNCHANGED <<cprog, i_, console, continue_, lpc, cidx, cval, accepted,
                   xlog, acks>>
    /\ UNCHANGED mvars

\* The channels the select has a case for: console[0], console[1] and
\* console[2] in arrayExampleOne, console[i] in fictionalForSelectInGo.
\* No statement tests continue_.
ConsoleCases == IF cprog = "arrayExampleOne" THEN Consoles ELSE {i_}

\* The select of the loop.  On entry the channel operands console[0],
\* console[1], console[2] (console[i]) are evaluated: on the nil slice the
\* index is out of range and the function panics.  Otherwise a case whose
\* console is blocked in its write is taken: c is received and the console
\* goes on to read its ack.  With no such case the select of
\* arrayExampleOne blocks and that of fictionalForSelectInGo takes
\* "default: break LOOP".
LoopSelect ==
    /\ lpc = "select"
    /\ LET R == {k \in ConsoleCases : cons[k].st = "offering"} IN
         IF console = "nil"
         THEN /\ lpc' = "panicked"
              /\ UNCHANGED <<cidx, cval, cons, accepted>>
         ELSE IF R # {}
              THEN \E k \in R :
                      /\ cidx' = k
                      /\ cval' = cons[k].val
                      /\ cons' = [cons EXCEPT ![k] =
                                     [st |-> "awaitAck", val |-> "", n |-> @.n + 1]]
                      /\ accepted' = Append(accepted, <<k, cons[k].val>>)
                      /\ lpc' = "sendX"
              ELSE /\ cprog = "fictionalForSelectInGo"
                   /\ lpc' = "done"
                   /\ UNCHANGED <<cidx, cval, cons, accepted>>
    /\ UNCHANGED <<cprog, i_, console, continue_, xlog, acks>>
    /\ UNCHANGED mvars

\* X <- xinput{i, c}
LoopSendX ==
    /\ lpc = "sendX"
    /\ xlog' = Append(xlog, <<BodyIndex, cval>>)
    /\ lpc' = "ack"
    /\ UNCHANGED <<cprog, i_, console, continue_, cidx, cval, cons, accepted,
                   acks>>
    /\ UNCHANGED mvars

\* console[i] <- ack{} : completes when console i is reading its channel.
LoopAck ==
    /\ lpc = "ack"
    /\ cons[BodyIndex].st = "awaitAck"
    /\ cons' = [cons EXCEPT ![BodyIndex] = [@ EXCEPT !.st = "idle"]]
    /\ acks' = Append(acks, BodyIndex)
    /\ lpc' = "assign"
    /\ UNCHANGED <<cprog, i_, console, continue_, cidx, cval, accepted, xlog>>
    /\ UNCHANGED mvars

\* continue_[i] = c != SIGN_OFF
LoopAssign ==
    /\ lpc = "assign"
    /\ continue_' = [continue_ EXCEPT ![BodyIndex] = (cval # SIGN_OFF)]
    /\ lpc' = "select"
    /\ UNCHANGED <<cprog, i_, console, cidx, cval, cons, accepted, xlog, acks>>
    /\ UNCHANGED mvars

ConsoleNext ==
    \/ \E k \in Consoles : \E v \in Inputs : ConsoleWrite(k, v)
    \/ LoopSelect
    \/ LoopSendX
    \/ LoopAck
    \/ LoopAssign

ConsoleSpec == ConsoleInit /\ [][ConsoleNext]_vars

\* ---------------------------------------------------------------------
\* Properties.  The guards of the CSP commands are the cases of the
\* selects together with the conditions their comments give.

\* The condition the comment of case i gives ("when x > y", "when y > x").
When(t, i) ==
    IF prog[t] \in {"alternativeWithBooleanCriteria", "repetition",
                    "nonInputGuards"}
    THEN IF i = 1 THEN x > y ELSE y > x
    ELSE TRUE

\* The channel has been closed.
SrcClosed(ch) == IF ch = "alwaysReady" THEN ar = "closed" ELSE closed[ch]

\* Case i stands for a guard without input: the cases of nonInputGuards,
\* which read alwaysReady in place of no input at all.
Inputless(t, i) == G(t, i).in = "alwaysReady"

\* Guard i is viable: its condition holds and, if it has an input, its
\* channel is open with a writer waiting.
Viable(t, i) ==
    /\ When(t, i)
    /\ Inputless(t, i) \/ (~closed[G(t, i).in] /\ wpc[G(t, i).in] = "blocked")

ViableNow(t) == {i \in CaseIdx(t) : Viable(t, i)}

\* Steps of task t: it enters its select; a case of its select is taken;
\* its function returns.
Enters(t) == evals'[t] = evals[t] + 1
Takes(t) == sels'[t] = sels[t] + 1
Returns(t) == pc[t] # "done" /\ pc'[t] = "done"

\* Guard i is viable in the step that takes it: its condition holds and a
\* value is received in the step from its open channel.
ViableInStep(t, i) ==
    /\ When(t, i)
    /\ Inputless(t, i)
         \/ (~closed[G(t, i).in] /\ recv'[G(t, i).in] = recv[G(t, i).in] + 1)

\* C1: a guard whose input channel is closed is never selected and its
\* body never runs, whatever its condition; a select all of whose guards
\* read closed channels takes no case (the outcome is Exhausted).
C1_ClosedSourceExclusion ==
    [][\A t \in Tasks :
          /\ Takes(t) => ~SrcClosed(G(t, outcome'[t].idx).in)
          /\ (Enters(t) /\ CaseIdx(t) # {}
                /\ \A i \in CaseIdx(t) : SrcClosed(G(t, i).in)) =>
                (sels'[t] = sels[t] /\ acts'[t] = acts[t])
      ]_vars

\* C1, the failing state: simpleAlternative took the case of west with west
\* closed; c is nil and the body east <- c has started.
C1_Witness ==
    /\ prog[1] = "simpleAlternative"
    /\ closed["west"]
    /\ outcome[1].kind = "Selected"
    /\ G(1, outcome[1].idx).in = "west"
    /\ outcome[1].val = NoVal
    /\ pc[1] = "send"

\* C2: a select ends Selected(i), with exactly one body run, that of guard
\* i, which was viable, or Exhausted, with no body run; a select that does
\* not wait ends Exhausted exactly when no guard was viable.
C2_OneOutcome ==
    [][\A t \in Tasks :
          Enters(t) =>
              /\ outcome'[t].kind = "Selected" =>
                    /\ acts'[t] = acts[t] + 1
                    /\ Viable(t, outcome'[t].idx)
              /\ outcome'[t].kind = "Default" =>
                    /\ acts'[t] = acts[t]
                    /\ ViableNow(t) = {}
              /\ HasDefault(prog[t]) =>
                    /\ outcome'[t].kind \in {"Selected", "Default"}
                    /\ outcome'[t].kind = "Default" <=> ViableNow(t) = {}
      ]_vars

\* C2, the failing state: repetition with y > x took the case of west
\* ("when x > y"), whose writer was waiting, and received its value.
C2_Witness ==
    /\ prog[1] = "repetition"
    /\ y > x
    /\ outcome[1].kind = "Selected"
    /\ outcome[1].idx = 1
    /\ outcome[1].val = Val("west", 1)

\* C3: a repetition enters its select again after every Selected outcome
\* and returns after the first Exhausted one, where a select is Exhausted
\* exactly when no guard is viable in it: each select the loop enters takes
\* a viable guard, or, with none viable, takes no case and the loop
\* returns.  So a loop whose guards cease to be viable after k selections
\* has entered k + 1 selects when it returns, k of which took a case.
C3_RepetitionTermination ==
    /\ [](\A t \in Tasks :
            (Rep(prog[t]) /\ HasDefault(prog[t])) =>
                /\ exhs[t] = (IF pc[t] = "done" THEN 1 ELSE 0)
                /\ evals[t] = sels[t] + exhs[t]
                /\ acts[t] = sels[t])
    /\ [][\A t \in Tasks :
             (Rep(prog[t]) /\ HasDefault(prog[t])) =>
                 /\ (pc[t] = "send" /\ pc'[t] # "send") => pc'[t] = "start"
                 /\ Returns(t) => (Enters(t) /\ outcome'[t].kind = "Default")
                 /\ Enters(t) =>
                       IF ViableNow(t) = {}
                       THEN Returns(t) /\ sels'[t] = sels[t]
                       ELSE Takes(t) /\ Viable(t, outcome'[t].idx)
         ]_vars

\* C3, the failing state: repetition with x = y, where no guard is viable
\* at any time, took the case of west at its first select, forwarded the
\* value and is at its select again instead of having returned after one.
C3_Witness ==
    /\ prog[1] = "repetition"
    /\ x = y
    /\ sels[1] = 1 /\ evals[1] = 1 /\ exhs[1] = 0
    /\ sunk["east"] = << Val("west", 1) >>
    /\ pc[1] = "start"

\* C4: when two or more guards are viable in one select, every one of them
\* is a possible selection of that select: no rule such as "the first
\* viable guard wins" decides.
C4_EveryViableCaseSelectable ==
    \A t \in Tasks :
        (pc[t] = "start" /\ evals[t] < MaxEvals
           /\ Cardinality(ViableNow(t)) >= 2) =>
            \A i \in ViableNow(t) :
                ENABLED (Select(t) /\ outcome'[t].kind = "Selected"
                            /\ outcome'[t].idx = i)

\* C4 witness: the second case was taken while the first was viable too,
\* and the writer of the first is still waiting.
C4_Witness ==
    \E t \in Tasks :
        /\ outcome[t].kind = "Selected"
        /\ outcome[t].ready = {1, 2}
        /\ outcome[t].idx = 2
        /\ outcome[t].val = Val("north", 1)
        /\ ~closed["west"] /\ wpc["west"] = "blocked" /\ wn["west"] = 0

\* C5: a select with no guard at all ends Exhausted when it is entered,
\* whatever the state of the channels and variables: it does not block.
C5_EmptySetExhausted ==
    [][\A t \in Tasks :
          (Enters(t) /\ CaseIdx(t) = {}) =>
              (outcome'[t].kind = "Default" /\ pc'[t] # "blocked")
      ]_vars

\* C5, the failing state: alternativeXGreaterThanY is blocked in select {}.
C5_Witness ==
    /\ prog[1] = "alternativeXGreaterThanY"
    /\ pc[1] = "blocked"
    /\ evals[1] = 1 /\ exhs[1] = 0

\* C6: the select that does not wait never suspends: entered when every
\* guard with a true condition has an open channel with no writer waiting,
\* it ends Exhausted at once.
C6_NeverSuspends ==
    [][\A t \in Tasks :
          (Enters(t) /\ HasDefault(prog[t])
             /\ \A i \in CaseIdx(t) :
                   When(t, i) =>
                       (~SrcClosed(G(t, i).in) /\ wpc[G(t, i).in] # "blocked")) =>
              (outcome'[t].kind = "Default" /\ pc'[t] # "blocked")
      ]_vars

\* C6, the failing state: repetition with x > y, west open with no writer,
\* took the case of north ("when y > x"), whose writer was waiting.
C6_Witness ==
    /\ prog[1] = "repetition"
    /\ x > y
    /\ ~closed["west"] /\ wpc["west"] = "idle" /\ wn["west"] = 0
    /\ evals[1] = 1
    /\ outcome[1].kind = "Selected"
    /\ outcome[1].idx = 2

\* C7: a write on an open channel completes only in the step in which a
\* reader receives its value; completed writes and receives are equal in
\* number on every channel, and a blocked writer leaves that state only by
\* a receive of its value or by failing when the channel is closed.
C7_Rendezvous ==
    /\ [](\A ch \in InChans : wn[ch] = recv[ch])
    /\ [][\A ch \in InChans :
             /\ wn'[ch] # wn[ch] =>
                   /\ wn'[ch] = wn[ch] + 1
                   /\ recv'[ch] = recv[ch] + 1
                   /\ ~closed[ch]
                   /\ \E t \in Tasks :
                         /\ Takes(t)
                         /\ outcome'[t].val = Val(ch, wn[ch] + 1)
             /\ (wpc[ch] = "blocked" /\ wpc'[ch] # "blocked") =>
                   \/ wpc'[ch] = "idle" /\ recv'[ch] = recv[ch] + 1
                   \/ wpc'[ch] = "panicked" /\ ~closed[ch] /\ closed'[ch]
         ]_vars

\* C7 witness: one write on west completed, received once, while a second
\* writer is blocked on north with no reader.
C7_Witness ==
    /\ wn["west"] = 1 /\ recv["west"] = 1
    /\ wpc["north"] = "blocked" /\ wn["north"] = 0
    /\ \A t \in Tasks : pc[t] \in {"done", "send"}

\* Occurrences of v in sequence s.
Count(s, v) == Cardinality({k \in DOMAIN s : s[k] = v})

\* Where value v is now: forwarded already, or held by a task in its body.
Occ(v) ==
    Count(sunk["east"], v) + Count(sunk["south"], v)
        + Cardinality({t \in Tasks : pc[t] = "send" /\ outcome[t].val = v})

\* C8: with several tasks reading the same channels, every written value is
\* received by exactly one reader (once its write completed, never before,
\* never twice), and the value given to the case body is the one written:
\* it is forwarded once, on the channel of the case that read it.
C8_ExactlyOnce ==
    /\ \A ch \in InChans : \A n \in 1..MaxWrites :
          /\ rcount[Val(ch, n)] = (IF n <= wn[ch] THEN 1 ELSE 0)
          /\ Occ(Val(ch, n)) = rcount[Val(ch, n)]
          /\ Count(sunk[IF ch = "west" THEN "south" ELSE "east"], Val(ch, n)) = 0
    /\ \A t \in Tasks :
          (outcome[t].kind = "Selected" /\ outcome[t].val # NoVal) =>
              \E n \in 1..wn[G(t, outcome[t].idx).in] :
                  outcome[t].val = Val(G(t, outcome[t].idx).in, n)

\* C8 witness: two tasks read west; each received one of its two values.
C8_Witness ==
    /\ prog[1] = "simpleAlternative"
    /\ prog[2] \in {"simpleAlternative", "repetition"}
    /\ \A t \in Tasks :
          /\ outcome[t].kind = "Selected"
          /\ G(t, outcome[t].idx).in = "west"
          /\ outcome[t].val # NoVal
    /\ outcome[1].val # outcome[2].val

\* C10: the select that waits does not take a case while no guard is
\* viable: every case it takes, at once or after waiting, is a guard whose
\* condition holds and whose open channel delivers a value in that step.
C10_BlockingAlternation ==
    [][\A t \in Tasks :
          (Takes(t) /\ ~HasDefault(prog[t])) =>
              ViableInStep(t, outcome'[t].idx)
      ]_vars

\* C10, the failing state: simpleAlternative waited in its select with no
\* writer; west was closed and the select took the case of west with nil.
C10_Witness ==
    /\ prog[1] = "simpleAlternative"
    /\ outcome[1].kind = "Selected"
    /\ outcome[1].woken
    /\ outcome[1].val = NoVal
    /\ recv["west"] = 0 /\ recv["north"] = 0

\* C11: closing is one-way, idempotent and visible at once: a closed
\* channel stays closed, a further close changes nothing (the closing task
\* included), and no guard reading a closed channel is selected later.
C11_CloseOneWayIdempotent ==
    [][/\ \A ch \in InChans : closed[ch] => closed'[ch]
       /\ cpc' = cpc
       /\ \A t \in Tasks :
             (Takes(t) /\ G(t, outcome'[t].idx).in \in InChans) =>
                 ~closed[G(t, outcome'[t].idx).in]
      ]_vars

\* C11, the failing state: north was closed twice; the second close made
\* the closing task panic.
C11_Witness ==
    /\ closed["north"]
    /\ ~closed["west"]
    /\ cpc = "panicked"

\* C12: a write on a closed channel always fails: it is never a completed
\* write, never leaves the writer blocked, never leaves it as it was; this
\* holds for a write started after the close and for a writer that was
\* blocked when the channel was closed.  The failure is permanent.
C12_WriteOnClosedFails ==
    [][\A ch \in InChans :
          /\ closed'[ch] => wpc'[ch] # "blocked"
          /\ closed[ch] => (wn'[ch] = wn[ch] /\ recv'[ch] = recv[ch])
          /\ (closed[ch] /\ wpc'[ch] # wpc[ch]) =>
                (wpc[ch] = "idle" /\ wpc'[ch] = "panicked")
          /\ (wpc[ch] = "blocked" /\ closed'[ch]) =>
                (wpc'[ch] = "panicked" /\ wn'[ch] = wn[ch]
                   /\ recv'[ch] = recv[ch])
          /\ wpc[ch] = "panicked" => wpc'[ch] = "panicked"
      ]_vars

\* C12 witness: the writer of west completed one write and failed on the
\* next, west being closed; the writer of north failed with no write
\* completed and none received.
C12_Witness ==
    /\ closed["west"] /\ wpc["west"] = "panicked"
    /\ wn["west"] = 1 /\ recv["west"] = 1
    /\ closed["north"] /\ wpc["north"] = "panicked"
    /\ wn["north"] = 0 /\ recv["north"] = 0

\* C14: the repetition *[x > y; west?c -> east!c [] y > x; north?c2 ->
\* south!c2] returns only when every guard whose condition holds reads a
\* closed channel (no guard at all when x = y): it does not return because
\* no writer is waiting on the open channel of a guard whose condition holds.
C14_RepetitionWaitsForInput ==
    [][\A t \in Tasks :
          (prog[t] = "repetition" /\ Returns(t)) =>
              \A i \in CaseIdx(t) : When(t, i) => SrcClosed(G(t, i).in)
      ]_vars

\* C14, the failing state: repetition with x > y returned at its first
\* select; west is open and nothing was written on it.
C14_Witness ==
    /\ prog[1] = "repetition"
    /\ x > y
    /\ pc[1] = "done"
    /\ evals[1] = 1 /\ sels[1] = 0
    /\ ~closed["west"] /\ wpc["west"] = "idle" /\ wn["west"] = 0

\* C15: a guard whose condition is false is never selected, and a select
\* leaves the writer waiting on the channel of such a guard as it is, its
\* value not received.
C15_FalseConditionRemoved ==
    [][\A t \in Tasks :
          /\ Takes(t) => When(t, outcome'[t].idx)
          /\ Enters(t) =>
                \A i \in CaseIdx(t) :
                    (~When(t, i) /\ G(t, i).in \in InChans
                       /\ wpc[G(t, i).in] = "blocked") =>
                        /\ wpc'[G(t, i).in] = "blocked"
                        /\ recv'[G(t, i).in] = recv[G(t, i).in]
      ]_vars

\* C15, the failing state: alternativeWithBooleanCriteria with y > x took
\* the case of west ("when x > y"); the write on west completed.
C15_Witness ==
    /\ prog[1] = "alternativeWithBooleanCriteria"
    /\ y > x
    /\ outcome[1].kind = "Selected"
    /\ outcome[1].idx = 1
    /\ wn["west"] = 1 /\ wpc["west"] = "idle"

\* The larger of two numbers.
Larger(a, b) == IF a >= b THEN a ELSE b

\* C16: [x > y -> m := x [] y > x -> m := y] sets m to the larger of x and
\* y and ends Selected when x # y, and ends Exhausted with m unchanged when
\* x = y, whatever the state of the channels.
C16_InputlessGuards ==
    [][\A t \in Tasks :
          (prog[t] = "nonInputGuards" /\ Enters(t)) =>
              IF x # y
              THEN /\ outcome'[t].kind = "Selected"
                   /\ When(t, outcome'[t].idx)
                   /\ m' = Larger(x, y)
              ELSE /\ sels'[t] = sels[t]
                   /\ pc'[t] = "done"
                   /\ m' = m
      ]_vars

\* C16, the failing state: nonInputGuards with y > x took its first case
\* and set m to x, the smaller.
C16_Witness ==
    /\ prog[1] = "nonInputGuards"
    /\ y > x
    /\ outcome[1].kind = "Selected"
    /\ outcome[1].idx = 1
    /\ m = x
    /\ pc[1] = "done"

\* Values received from the writers in the step.
ReceivedInStep ==
    (recv'["west"] - recv["west"]) + (recv'["north"] - recv["north"])

\* C17: one select receives at most one value.  When it takes a case, the
\* writer of that case alone completes its write; the writers waiting on
\* the other channels whose cases could proceed stay blocked, their values
\* not received.  A select that takes no case receives nothing.
C17_AtMostOneValue ==
    [][/\ ReceivedInStep \in {0, 1}
       /\ \A ch \in InChans : recv'[ch] >= recv[ch]
       /\ \A t \in Tasks :
             /\ Takes(t) =>
                   LET g == G(t, outcome'[t].idx) IN
                     /\ ReceivedInStep =
                           (IF g.in \in InChans /\ ~closed[g.in] THEN 1 ELSE 0)
                     /\ (g.in \in InChans /\ ~closed[g.in]) =>
                           recv'[g.in] = recv[g.in] + 1
                     /\ \A j \in outcome'[t].ready \ {outcome'[t].idx} :
                           (G(t, j).in \in InChans /\ G(t, j).in # g.in
                              /\ ~closed[G(t, j).in]) =>
                               /\ wpc[G(t, j).in] = "blocked"
                               /\ wpc'[G(t, j).in] = "blocked"
                               /\ wn'[G(t, j).in] = wn[G(t, j).in]
                               /\ recv'[G(t, j).in] = recv[G(t, j).in]
             /\ (Enters(t) /\ ~Takes(t)) =>
                   (ReceivedInStep = 0 /\ wpc' = wpc /\ wn' = wn)
      ]_vars

\* C17 witness: simpleAlternative ran alone with writers blocked on west
\* and on north; it took the value of west, and the writer of north is
\* still blocked with nothing received from north.
C17_Witness ==
    /\ prog[1] = "simpleAlternative" /\ prog[2] = "none"
    /\ outcome[1].kind = "Selected"
    /\ outcome[1].ready = {1, 2}
    /\ G(1, outcome[1].idx).in = "west"
    /\ outcome[1].val = Val("west", 1)
    /\ recv["west"] = 1 /\ recv["north"] = 0
    /\ ~closed["north"] /\ wpc["north"] = "blocked" /\ wn["north"] = 0

\* Sequence s is the start of sequence r.
IsPrefix(s, r) == Len(s) <= Len(r) /\ s = SubSeq(r, 1, Len(s))

\* The consoles of the inputs taken, in order.
AcceptedConsoles == [p \in DOMAIN accepted |-> accepted[p][1]]

\* What the console repetition is to do: a state part and a step part.
ConsoleStateOK ==
    /\ lpc # "panicked"
    /\ IsPrefix(xlog, accepted) /\ Len(accepted) <= Len(xlog) + 1
    /\ lpc \in {"ack", "assign"} => Len(xlog) = Len(accepted)
    /\ IsPrefix(acks, AcceptedConsoles) /\ Len(xlog) <= Len(acks) + 1
    /\ lpc = "ack" => ENABLED LoopAck
    /\ lpc \in {"select", "done"} =>
          (Len(acks) = Len(accepted) /\ Len(xlog) = Len(accepted))
    /\ \A p \in DOMAIN accepted : \A q \in DOMAIN accepted :
          (p < q /\ accepted[p][2] = SIGN_OFF) => accepted[q][1] # accepted[p][1]
    /\ lpc = "done" => \A k \in Consoles : ~continue_[k]
    /\ (lpc = "select" /\ \A k \in Consoles : ~continue_[k]) =>
          ENABLED (LoopSelect /\ lpc' = "done")

ConsoleStepOK ==
    /\ accepted' # accepted =>
          /\ lpc = "select" /\ lpc' = "sendX"
          /\ continue_[cidx']
          /\ cons[cidx'].st = "offering"
          /\ accepted' = Append(accepted, <<cidx', cons[cidx'].val>>)
          /\ cval' = cons[cidx'].val
    /\ xlog' # xlog =>
          /\ lpc = "sendX" /\ lpc' = "ack"
          /\ xlog' = Append(xlog, <<cidx, cval>>)
    /\ acks' # acks =>
          /\ lpc = "ack" /\ lpc' = "assign"
          /\ acks' = Append(acks, cidx)
          /\ cons[cidx].st = "awaitAck" /\ cons'[cidx].st = "idle"
    /\ continue_' # continue_ => lpc = "assign"
    /\ (lpc = "assign" /\ lpc' # "assign") =>
          /\ continue_' = [continue_ EXCEPT ![cidx] = (cval # SIGN_OFF)]
          /\ lpc' = "select"
    /\ (lpc = "select" /\ lpc' = "done") => \A k \in Consoles : ~continue_[k]

\* C18: the console repetition.  Input from console k is taken only while
\* continue_[k]; each input c taken from console k is followed, in this
\* order and before the next select, by (k, c) on X, an ack that console k
\* receives, and continue_[k] := (c # SIGN_OFF); after SIGN_OFF from console
\* k no input of k is taken; the loop ends when, and only when, continue_ is
\* false for every console, and it does not fail.
C18_ConsoleRepetition ==
    /\ []((cprog \in ConsoleProgs) => ConsoleStateOK)
    /\ [][(cprog \in ConsoleProgs) => ConsoleStepOK]_vars

\* C18, the failing state: arrayExampleOne, given a console of three
\* channels and with continue_ false for every console, took an input from console 1 and sent it on X under the index
\* 0, the value of the package-level i; it is now blocked in
\* console[0] <- ack{} while console 1 waits for its ack.
C18_Witness ==
    /\ cprog = "arrayExampleOne"
    /\ console = "made"
    /\ \A k \in Consoles : ~continue_[k]
    /\ accepted = << <<1, "a">> >>
    /\ xlog = << <<0, "a">> >>
    /\ lpc = "ack"
    /\ cons[1].st = "awaitAck"
    /\ ~ENABLED LoopAck

====
